---- MODULE Spec2Model ----
(***************************************************************************)
(* A model of the job board of src/app.py: the text normalizer             *)
(* (clean_text), the salary parser (parse_salary_monthly), the loader      *)
(* (load_jobs), the filter and sort engine (apply_filters) and the         *)
(* pagination of index().                                                  *)
(*                                                                         *)
(* A Python str is modelled as a sequence of one-character strings, so     *)
(* that substring tests, regular-expression substitutions and case         *)
(* folding are computed character by character as the code computes them.  *)
(* A Python list is a sequence, a dict a record, None the value None.      *)
(***************************************************************************)
EXTENDS Integers, Sequences, FiniteSets, TLC

VARIABLES
    value,          \* clean_text: the argument of the first call
    once,           \* clean_text(value), NotYet before the call
    twice,          \* clean_text(clean_text(value)), NotYet before the call
    salary,         \* parse_salary_monthly: the salary text of the job
    monthly,        \* parse_salary_monthly(job), NotYet before the call
    file,           \* scraped_jobs.json: [status, jobs]
    pc,             \* where the request handler stands
    jobs,           \* index(): the list `jobs` that load_jobs() returned
    loaded,         \* history: a copy of that list as load_jobs() returned it
    criteria,       \* index(): the filter and sort arguments of the request
    filtered,       \* index(): filtered_jobs, the list apply_filters returned
    page,           \* index(): the page argument of the request
    total_pages,    \* index(): total_pages
    current_page,   \* index(): current_page
    paginated_jobs, \* index(): paginated_jobs
    response        \* job_detail(): [status, job_id, body]

cleanVars == <<value, once, twice>>
salaryVars == <<salary, monthly>>
queryVars == <<jobs, loaded, criteria, filtered, page, total_pages, current_page,
               paginated_jobs>>
vars == <<value, once, twice, salary, monthly, file, pc, jobs, loaded, criteria,
          filtered, page, total_pages, current_page, paginated_jobs, response>>

\* None, and the mark of a call not made yet: sequences that no str equals
None == <<"None">>
NotYet == <<"NotYet">>

----------------------------------------------------------------------------
(* str helpers *)

UpperCase == <<"A","B","C","D","E","F","G","H","I","J","K","L","M",
               "N","O","P","Q","R","S","T","U","V","W","X","Y","Z">>
LowerCase == <<"a","b","c","d","e","f","g","h","i","j","k","l","m",
               "n","o","p","q","r","s","t","u","v","w","x","y","z">>

\* the lower-case letter of each upper-case letter
LowerOf ==
    [c \in {UpperCase[i] : i \in 1..Len(UpperCase)} |->
        LowerCase[CHOOSE i \in 1..Len(UpperCase) : UpperCase[i] = c]]

\* str.lower() on one character
LowerChar(c) == IF c \in DOMAIN LowerOf THEN LowerOf[c] ELSE c

\* str.lower()
Lower(s) == SubSeq([i \in 1..Len(s) |-> LowerChar(s[i])], 1, Len(s))

\* the character at 1-based position k, "" past the end
At(s, k) == IF k >= 1 /\ k <= Len(s) THEN s[k] ELSE ""

\* the first position >= i whose character is not in set (Len(s)+1 if none)
SkipRun(s, i, set) ==
    IF i > Len(s) THEN i
    ELSE CHOOSE j \in i..(Len(s) + 1) :
            /\ \A k \in i..(j - 1) : s[k] \in set
            /\ (j = Len(s) + 1 \/ s[j] \notin set)

\* the first position >= i whose character is in set (Len(s)+1 if none)
FindAny(s, i, set) ==
    IF i > Len(s) THEN i
    ELSE CHOOSE j \in i..(Len(s) + 1) :
            /\ \A k \in i..(j - 1) : s[k] \notin set
            /\ (j = Len(s) + 1 \/ s[j] \in set)

\* sub in s  (Python's substring test)
Contains(s, sub) ==
    \E i \in 1..(Len(s) - Len(sub) + 1) : SubSeq(s, i, i + Len(sub) - 1) = sub

\* the whitespace str.split() and str.strip() know, within the alphabet
Whitespace == {" ", "\n", "\t"}

\* str.strip()
Strip(s) ==
    LET a == SkipRun(s, 1, Whitespace)
    IN  IF a > Len(s) THEN <<>>
        ELSE LET b == CHOOSE j \in a..Len(s) :
                         /\ s[j] \notin Whitespace
                         /\ \A k \in (j + 1)..Len(s) : s[k] \in Whitespace
             IN  SubSeq(s, a, b)

\* str.split(): the maximal runs of non-whitespace characters
RECURSIVE Split(_)
Split(s) ==
    LET a == SkipRun(s, 1, Whitespace)
    IN  IF a > Len(s) THEN <<>>
        ELSE LET b == FindAny(s, a, Whitespace)
             IN  <<SubSeq(s, a, b - 1)>> \o Split(SubSeq(s, b, Len(s)))

\* sep.join(parts)
RECURSIVE Join(_, _)
Join(sep, parts) ==
    IF parts = <<>> THEN <<>>
    ELSE IF Len(parts) = 1 THEN parts[1]
    ELSE parts[1] \o sep \o Join(sep, Tail(parts))

\* str.splitlines(): "\n" is the only line boundary of the alphabet
RECURSIVE SplitLines(_)
SplitLines(s) ==
    IF s = <<>> THEN <<>>
    ELSE LET k == FindAny(s, 1, {"\n"})
         IN  <<SubSeq(s, 1, k - 1)>> \o SplitLines(SubSeq(s, k + 1, Len(s)))

----------------------------------------------------------------------------
(* Text Normalizer: clean_text *)

\* _BR_RE = re.compile(r"<\\s*br\\s*/?\\s*>", re.IGNORECASE): in a raw string
\* "\\s" is an escaped backslash followed by the letter s, so the pattern is
\*   "<"  backslash  s*  "br"  backslash  s*  "/"?  backslash  s*  ">"
\* with letters matched in either case.  BR_RE_match(s, i) is the position
\* after the match that starts at i, 0 when there is none.
BR_RE_match(s, i) ==
    LET S == {"s", "S"}
        a == SkipRun(s, i + 2, S)
        b == SkipRun(s, a + 3, S)
        c == IF At(s, b) = "/" THEN b + 1 ELSE b
        d == SkipRun(s, c + 1, S)
    IN  IF /\ At(s, i) = "<"
           /\ At(s, i + 1) = "\\"
           /\ At(s, a) \in {"b", "B"}
           /\ At(s, a + 1) \in {"r", "R"}
           /\ At(s, a + 2) = "\\"
           /\ At(s, c) = "\\"
           /\ At(s, d) = ">"
        THEN d + 1
        ELSE 0

\* _BR_RE.sub("\n", value): leftmost non-overlapping matches, from position i
RECURSIVE BR_RE_sub(_, _)
BR_RE_sub(s, i) ==
    IF i > Len(s) THEN <<>>
    ELSE LET e == BR_RE_match(s, i)
         IN  IF e > 0 THEN <<"\n">> \o BR_RE_sub(s, e)
             ELSE <<s[i]>> \o BR_RE_sub(s, i + 1)

\* html.entities.html5 restricted to the names that the characters of the
\* modelled inputs can spell
html5 == { << <<"a","m","p",";">>, "&" >>, << <<"a","m","p">>, "&" >>,
           << <<"l","t",";">>, "<" >>,     << <<"l","t">>, "<" >>,
           << <<"g","t",";">>, ">" >>,     << <<"g","t">>, ">" >> }

html5_has(name) == \E e \in html5 : e[1] = name
html5_get(name) == (CHOOSE e \in html5 : e[1] = name)[2]

\* html._replace_charref for a named reference g (the text after "&"):
\* the whole name, else its longest proper prefix of length >= 2 that is a
\* name, else the text unchanged
replace_charref(g) ==
    IF html5_has(g) THEN <<html5_get(g)>>
    ELSE LET P == {x \in 2..(Len(g) - 1) : html5_has(SubSeq(g, 1, x))}
         IN  IF P = {} THEN <<"&">> \o g
             ELSE LET x == CHOOSE y \in P : \A z \in P : z <= y
                  IN  <<html5_get(SubSeq(g, 1, x))>> \o SubSeq(g, x + 1, Len(g))

\* the characters that end a named character reference
CharrefStop == {"\t", "\n", " ", "<", "&", "#", ";"}

\* html.unescape(text) from position i: "&", a run of name characters (the
\* cap of 32 on the run is beyond the lengths modelled) and an optional ";"
RECURSIVE unescape(_, _)
unescape(s, i) ==
    IF i > Len(s) THEN <<>>
    ELSE IF s[i] # "&" THEN <<s[i]>> \o unescape(s, i + 1)
    ELSE LET j == FindAny(s, i + 1, CharrefStop)
             e == IF At(s, j) = ";" THEN j + 1 ELSE j
         IN  IF j = i + 1 THEN <<"&">> \o unescape(s, i + 1)
             ELSE replace_charref(SubSeq(s, i + 1, e - 1)) \o unescape(s, e)

\* _TAG_RE = re.compile(r"<[^>]+>"): "<", at least one character other than
\* ">", then the first ">"
TAG_RE_match(s, i) ==
    LET g == FindAny(s, i + 1, {">"})
    IN  IF At(s, i) = "<" /\ g > i + 1 /\ g <= Len(s) THEN g + 1 ELSE 0

\* _TAG_RE.sub(" ", text)
RECURSIVE TAG_RE_sub(_, _)
TAG_RE_sub(s, i) ==
    IF i > Len(s) THEN <<>>
    ELSE LET e == TAG_RE_match(s, i)
         IN  IF e > 0 THEN <<" ">> \o TAG_RE_sub(s, e)
             ELSE <<s[i]>> \o TAG_RE_sub(s, i + 1)

\* [" ".join(line.split()) for line in text.splitlines()], empty lines dropped
CleanLines(text) ==
    LET lines == SplitLines(text)
        norm == [k \in 1..Len(lines) |-> Join(<<" ">>, Split(lines[k]))]
    IN  SelectSeq(norm, LAMBDA line : line # <<>>)

\* clean_text(value)
clean_text(v) ==
    IF v = None THEN <<>>
    ELSE Join(<<"\n">>, CleanLines(TAG_RE_sub(unescape(BR_RE_sub(v, 1), 1), 1)))

----------------------------------------------------------------------------
(* dict helpers *)

\* job.get(key, default): a dict is a function on its keys
Get(job, key, default) == IF key \in DOMAIN job THEN job[key] ELSE default

\* x or default, for x a str or None
Or(x, default) == IF x = None \/ x = <<>> THEN default ELSE x

----------------------------------------------------------------------------
(* floats, as exact fractions <<numerator, denominator>> in lowest terms *)

RECURSIVE GCD(_, _)
GCD(a, b) == IF b = 0 THEN a ELSE GCD(b, a % b)

Frac(n, d) == LET g == GCD(n, d) IN <<n \div g, d \div g>>
FracAdd(x, y) == Frac(x[1] * y[2] + y[1] * x[2], x[2] * y[2])
FracMul(x, k) == Frac(x[1] * k, x[2])
FracDiv(x, k) == Frac(x[1], x[2] * k)
FracLess(x, y) == x[1] * y[2] < y[1] * x[2]
FracLeq(x, y) == x[1] * y[2] <= y[1] * x[2]
Whole(k) == <<k, 1>>

RECURSIVE FracSum(_)
FracSum(xs) == IF xs = <<>> THEN Whole(0) ELSE FracAdd(xs[1], FracSum(Tail(xs)))

----------------------------------------------------------------------------
(* Salary Parser: parse_salary_monthly *)

Digits == <<"0","1","2","3","4","5","6","7","8","9">>
IsDigit(c) == \E i \in 1..Len(Digits) : Digits[i] = c
DigitVal(c) == (CHOOSE i \in 1..Len(Digits) : Digits[i] = c) - 1
DigitSet == {Digits[i] : i \in 1..Len(Digits)}

\* _SALARY_NUM_RE = re.compile(r'[\$]?\s*([\d,]+(?:\.\d+)?)'), findall from
\* position i: the captured groups are the maximal runs of digits and commas,
\* each with the ".digits" that follows it; the "$" and the whitespace before
\* a run are matched and not captured
RECURSIVE SALARY_NUM_RE_findall(_, _)
SALARY_NUM_RE_findall(s, i) ==
    IF i > Len(s) THEN <<>>
    ELSE IF s[i] \notin DigitSet \cup {","} THEN SALARY_NUM_RE_findall(s, i + 1)
    ELSE LET j == SkipRun(s, i, DigitSet \cup {","})
             k == IF At(s, j) = "." /\ IsDigit(At(s, j + 1))
                  THEN SkipRun(s, j + 1, DigitSet) ELSE j
         IN  <<SubSeq(s, i, k - 1)>> \o SALARY_NUM_RE_findall(s, k)

\* n.replace(',', '')
RemoveCommas(n) == SelectSeq(n, LAMBDA c : c # ",")

\* the value of a run of decimal digits
RECURSIVE DigitsToInt(_)
DigitsToInt(ds) ==
    IF ds = <<>> THEN 0
    ELSE 10 * DigitsToInt(SubSeq(ds, 1, Len(ds) - 1)) + DigitVal(ds[Len(ds)])

RECURSIVE Pow10(_)
Pow10(k) == IF k = 0 THEN 1 ELSE 10 * Pow10(k - 1)

\* float(n) for n of digits with an optional ".digits"
Float(n) ==
    LET dot == FindAny(n, 1, {"."})
        whole == SubSeq(n, 1, dot - 1)
        frac == SubSeq(n, dot + 1, Len(n))
    IN  Frac(DigitsToInt(whole) * Pow10(Len(frac)) + DigitsToInt(frac),
             Pow10(Len(frac)))

\* the loop of lines 61-68: the tokens that are not empty once their commas
\* are removed, as floats
SalaryNums(raw) ==
    LET found == SALARY_NUM_RE_findall(raw, 1)
        stripped == [k \in 1..Len(found) |-> Strip(RemoveCommas(found[k]))]
        kept == SelectSeq(stripped, LAMBDA n : n # <<>>)
    IN  [k \in 1..Len(kept) |-> Float(kept[k])]

SkipExact == { <<"t","b","d">>, <<"n","/","a">>, <<"d","o","e">>, <<"a","n","y">>,
               <<"n","e","g","o","t","i","a","b","l","e">>,
               <<"p","r","o","j","e","c","t","-","b","a","s","e","d">> }
SkipSubstr == { <<"b","a","s","e","d"," ","o","n">>,
                <<"c","o","m","p","e","t","i","t","i","v","e">> }

HourMarkers == { <<"/","h","r">>, <<"/","h","o","u","r">>,
                 <<"p","e","r"," ","h","o","u","r">>,
                 <<"h","o","u","r","l","y">>, <<"h","o","u","r">> }
YearMarkers == { <<"/","y","r">>, <<"/","y","e","a","r">>,
                 <<"a","n","n","u","a","l">>, <<"y","e","a","r","l","y">> }
WeekMarkers == { <<"/","w">>, <<"/","w","e","e","k">>,
                 <<"w","e","e","k","l","y">>, <<"p","e","r"," ","w","e","e","k">> }
MonthMarkers == { <<"/","m","o">>, <<"/","m","o","n","t","h">>,
                  <<"m","o","n","t","h","l","y">>,
                  <<"p","e","r"," ","m","o","n","t","h">> }

\* any(kw in low for kw in markers)
AnyIn(markers, low) == \E kw \in markers : Contains(low, kw)

HoursPerMonth == 160
MonthsPerYear == 12
WeeksPerMonth == 4
AnnualAbove == 10000
HourlyBelow == 50

\* lines 75-83: the period named in the text, "" when none is
SalaryPeriod(low) ==
    IF AnyIn(HourMarkers, low) THEN "hour"
    ELSE IF AnyIn(YearMarkers, low) THEN "year"
    ELSE IF AnyIn(WeekMarkers, low) THEN "week"
    ELSE IF AnyIn(MonthMarkers, low) THEN "month"
    ELSE ""

\* the magnitude rule with the bounds included: 50 counted as hourly and
\* 10000 as yearly
GuessPeriodInclusive(avg) ==
    IF FracLeq(Whole(AnnualAbove), avg) THEN "year"
    ELSE IF FracLeq(avg, Whole(HourlyBelow)) THEN "hour"
    ELSE "month"

\* lines 85-91: the period guessed from the magnitude of the average
GuessPeriod(avg) ==
    IF FracLess(Whole(AnnualAbove), avg) THEN "year"
    ELSE IF FracLess(avg, Whole(HourlyBelow)) THEN "hour"
    ELSE "month"

\* the average normalized to a month
ToMonthly(avg, period) ==
    CASE period = "hour" -> FracMul(avg, HoursPerMonth)
      [] period = "year" -> FracDiv(avg, MonthsPerYear)
      [] period = "week" -> FracMul(avg, WeeksPerMonth)
      [] OTHER -> avg

\* parse_salary_monthly(job)
parse_salary_monthly(job) ==
    LET raw == Strip(Or(Get(job, "salary", None), <<>>))
        low == Lower(raw)
        nums == SalaryNums(raw)
        avg == FracDiv(FracSum(nums), Len(nums))
        named == SalaryPeriod(low)
    IN  IF raw = <<>> THEN None
        ELSE IF low \in SkipExact \/ AnyIn(SkipSubstr, low) THEN None
        ELSE IF nums = <<>> THEN None
        ELSE IF named # "" THEN ToMonthly(avg, named)
        ELSE ToMonthly(avg, GuessPeriod(avg))

----------------------------------------------------------------------------
(* Classifier: detect_arrangement, detect_job_type *)

\* the keyword tables, in insertion order
ARRANGEMENT_KEYWORDS ==
    << << <<"r","e","m","o","t","e">>, << <<"r","e","m","o","t","e">>, <<"w","o","r","k"," ","f","r","o","m"," ","h","o","m","e">>, <<"w","f","h">>, <<"a","n","y","w","h","e","r","e">> >> >>,
       << <<"h","y","b","r","i","d">>, << <<"h","y","b","r","i","d">> >> >>,
       << <<"o","n","s","i","t","e">>, << <<"o","n","s","i","t","e">>, <<"o","n","-","s","i","t","e">>, <<"o","n"," ","s","i","t","e">>, <<"i","n","-","o","f","f","i","c","e">>,
                        <<"i","n"," ","o","f","f","i","c","e">> >> >> >>

TYPE_KEYWORDS ==
    << << <<"f","u","l","l","-","t","i","m","e">>, << <<"f","u","l","l","-","t","i","m","e">>, <<"f","u","l","l"," ","t","i","m","e">>, <<"f","u","l","l","t","i","m","e">> >> >>,
       << <<"p","a","r","t","-","t","i","m","e">>, << <<"p","a","r","t","-","t","i","m","e">>, <<"p","a","r","t"," ","t","i","m","e">>, <<"p","a","r","t","t","i","m","e">> >> >>,
       << <<"c","o","n","t","r","a","c","t">>, << <<"c","o","n","t","r","a","c","t">> >> >>,
       << <<"f","r","e","e","l","a","n","c","e">>, << <<"f","r","e","e","l","a","n","c","e">>, <<"g","i","g">> >> >> >>

\* the first label of the table one of whose keywords is in text, '' if none
FirstLabel(table, text) ==
    LET hits == {i \in 1..Len(table) :
                    \E k \in 1..Len(table[i][2]) : Contains(text, table[i][2][k])}
    IN  IF hits = {} THEN <<>>
        ELSE table[CHOOSE i \in hits : \A j \in hits : i <= j][1]

\* ' '.join([job.get(k) or '' for k in keys]).lower()
FieldsText(job, keys) ==
    Lower(Join(<<" ">>, [i \in 1..Len(keys) |-> Or(Get(job, keys[i], None), <<>>)]))

detect_arrangement(job) ==
    FirstLabel(ARRANGEMENT_KEYWORDS,
               FieldsText(job, <<"location", "title", "category", "type">>))

detect_job_type(job) ==
    FirstLabel(TYPE_KEYWORDS, FieldsText(job, <<"category", "type", "title">>))

----------------------------------------------------------------------------
(* Date Parser: parse_date, format_date *)

\* A date string is modelled by its shape and the naive instant it denotes,
\* <<shape, <<year, month, day, hour, minute, second>>>>:
\*   "iso8601"  2026-02-03T14:00:06+00:00     "short"  Feb 4, 2026
\*   "rfc2822"  Wed, 12 Nov 2025 08:56:02 +0000   "plain"  2026-02-03
\*   "other"    anything else, such as "not a date"
\* parse_date tries the four parsers in the order of the code; fromisoformat
\* accepts the plain shape too, so the last attempt never decides.
parse_date(job) ==
    LET raw == Or(Get(job, "posted_date", None),
                  Or(Get(job, "date_posted", None), <<>>))
    IN  IF raw = <<>> THEN None
        ELSE IF raw[1] \in {"iso8601", "plain"} THEN raw[2]
        ELSE IF raw[1] = "rfc2822" THEN raw[2]
        ELSE IF raw[1] = "short" THEN raw[2]
        ELSE IF raw[1] = "plain" THEN raw[2]
        ELSE None

\* datetime.min
datetime_min == <<1, 1, 1, 0, 0, 0>>

\* a < b for two naive datetimes
RECURSIVE TupleLess(_, _)
TupleLess(a, b) ==
    IF a = <<>> THEN FALSE
    ELSE IF a[1] # b[1] THEN a[1] < b[1]
    ELSE TupleLess(Tail(a), Tail(b))

MonthAbbr == << <<"J","a","n">>, <<"F","e","b">>, <<"M","a","r">>, <<"A","p","r">>, <<"M","a","y">>, <<"J","u","n">>,
                <<"J","u","l">>, <<"A","u","g">>, <<"S","e","p">>, <<"O","c","t">>, <<"N","o","v">>, <<"D","e","c">> >>

\* the decimal digits of n >= 0
RECURSIVE IntToDigits(_)
IntToDigits(n) ==
    IF n < 10 THEN <<Digits[n + 1]>>
    ELSE IntToDigits(n \div 10) \o <<Digits[(n % 10) + 1]>>

\* %d: the day of the month on two digits
TwoDigits(n) == IF n < 10 THEN <<"0">> \o IntToDigits(n) ELSE IntToDigits(n)

\* s.replace(old, new)
RECURSIVE Replace(_, _, _)
Replace(s, old, new) ==
    IF Len(s) < Len(old) THEN s
    ELSE IF SubSeq(s, 1, Len(old)) = old
         THEN new \o Replace(SubSeq(s, Len(old) + 1, Len(s)), old, new)
         ELSE <<s[1]>> \o Replace(Tail(s), old, new)

\* format_date(dt): strftime('%b %d, %Y').replace(' 0', ' ')
format_date(dt) ==
    IF dt = None THEN <<>>
    ELSE Replace(MonthAbbr[dt[2]] \o <<" ">> \o TwoDigits(dt[3]) \o <<",", " ">>
                    \o IntToDigits(dt[1]),
                 <<" ", "0">>, <<" ">>)

----------------------------------------------------------------------------
(* load_jobs *)

\* job[key] = v
Set(job, key, v) == (key :> v) @@ job

TextKeys == {"title", "description", "job_description", "company", "location",
             "salary", "type", "category"}

\* normalize_job_text(job): the text fields that are present are cleaned
normalize_job_text(job) ==
    [k \in DOMAIN job |-> IF k \in TextKeys THEN clean_text(job[k]) ELSE job[k]]

\* lines 167-171, one assignment each
WithArrangement(job) == Set(job, "_arrangement", detect_arrangement(job))
WithJobType(job) == Set(job, "_job_type", detect_job_type(job))
WithParsedDate(job) == Set(job, "_parsed_date", parse_date(job))
WithDisplayDate(job) == Set(job, "_display_date", format_date(job["_parsed_date"]))
WithSalaryMonthly(job) == Set(job, "_salary_monthly", parse_salary_monthly(job))

\* the body of the loop of load_jobs for the record at 0-based index idx
LoadJob(raw, idx) ==
    WithSalaryMonthly(WithDisplayDate(WithParsedDate(WithJobType(
        WithArrangement(Set(normalize_job_text(raw), "id", idx))))))

\* for idx, job in enumerate(jobs), from index idx on
RECURSIVE LoadFrom(_, _)
LoadFrom(raws, idx) ==
    IF raws = <<>> THEN <<>>
    ELSE <<LoadJob(Head(raws), idx)>> \o LoadFrom(Tail(raws), idx + 1)

\* load_jobs(): the file is a list of records, or is missing or not JSON
load_jobs(f) == IF f.status # "ok" THEN <<>> ELSE LoadFrom(f.jobs, 0)

----------------------------------------------------------------------------
(* Filter and Sort Engine: apply_filters *)

\* SALARY_RANGES: key, lo, hi, with <<>> for float('inf')
SALARY_RANGES ==
    { << <<"u","n","d","e","r","5","0","0">>, 0, <<500>> >>,
      << <<"5","0","0","t","o","1","0","0","0">>, 500, <<1000>> >>,
      << <<"1","0","0","0","t","o","2","0","0","0">>, 1000, <<2000>> >>,
      << <<"2","0","0","0","t","o","5","0","0","0">>, 2000, <<5000>> >>,
      << <<"5","0","0","0","p","l","u","s">>, 5000, <<>> >> }

\* salary_filter in SALARY_RANGES
IsSalaryRange(key) == \E r \in SALARY_RANGES : r[1] = key
SalaryRange(key) == CHOOSE r \in SALARY_RANGES : r[1] = key

\* the parts of request.args that apply_filters reads
NoCriteria ==
    [source |-> <<>>, category |-> <<>>, search |-> <<>>, arrangement |-> <<>>,
     job_type |-> <<>>, sort |-> <<>>, salary |-> <<>>]

\* line 230
MatchesSource(j, source_filter) == Get(j, "source", <<>>) = source_filter

\* line 234
MatchesCategory(j, category_filter) ==
    \/ Get(j, "category", <<>>) = category_filter
    \/ Get(j, "type", <<>>) = category_filter

\* line 237
MatchesArrangement(j, arrangement_filter) ==
    Get(j, "_arrangement", None) = arrangement_filter

\* line 240
MatchesJobType(j, job_type_filter) == Get(j, "_job_type", None) = job_type_filter

\* the range test with the upper end included: lo <= v <= hi
InRangeClosed(v, lo, hi) ==
    /\ FracLeq(Whole(lo), v)
    /\ (hi = <<>> \/ FracLeq(v, Whole(hi[1])))

\* line 245: lo <= v < hi
InRange(v, lo, hi) ==
    /\ FracLeq(Whole(lo), v)
    /\ (hi = <<>> \/ FracLess(v, Whole(hi[1])))

MatchesSalary(j, salary_filter) ==
    LET r == SalaryRange(salary_filter)
        v == Get(j, "_salary_monthly", None)
    IN  v # None /\ InRange(v, r[2], r[3])

\* lines 248-252
MatchesSearch(j, search_query) ==
    LET q == Lower(search_query)
    IN  \/ Contains(Lower(Or(Get(j, "title", None), <<>>)), q)
        \/ Contains(Lower(Or(Get(j, "description", None), <<>>)), q)
        \/ Contains(Lower(Or(Get(j, "job_description", None), <<>>)), q)

\* the sort key with a null date counted as the latest instant (datetime.max)
SortKeyNullLatest(j) ==
    LET d == Get(j, "_parsed_date", None)
    IN  IF d = None THEN <<9999, 12, 31, 23, 59, 59>> ELSE d

\* the sort key of lines 256 and 258
SortKey(j) ==
    LET d == Get(j, "_parsed_date", None)
    IN  IF d = None THEN datetime_min ELSE d

\* the sort keys of a list
SortKeys(list) == SubSeq([i \in 1..Len(list) |-> SortKey(list[i])], 1, Len(list))

\* the item at i sorts before the item at k: by its key, and among equal
\* keys by position, the later one first when ties_reversed
SortsBefore(keys, i, k, reverse, ties_reversed) ==
    IF keys[i] = keys[k] THEN (IF ties_reversed THEN i > k ELSE i < k)
    ELSE IF reverse THEN TupleLess(keys[k], keys[i])
    ELSE TupleLess(keys[i], keys[k])

\* the place of the item at i in the sorted list: one more than the count of
\* the items that sort before it
Place(keys, i, reverse, ties_reversed) ==
    1 + Cardinality({k \in 1..Len(keys) :
                        k # i /\ SortsBefore(keys, k, i, reverse, ties_reversed)})

\* the list with each item at its place
Sorted(list, keys, reverse, ties_reversed) ==
    SubSeq([r \in 1..Len(list) |->
               list[CHOOSE i \in 1..Len(list) :
                       Place(keys, i, reverse, ties_reversed) = r]],
           1, Len(list))

\* the sort done as an ascending sort followed by list.reverse(): with
\* reverse, the items with equal keys come out in the reverse of the order
\* they had
ListSortThenReverse(list, reverse) == Sorted(list, SortKeys(list), reverse, reverse)

\* list.sort(key=..., reverse=...): stable in both directions, the items with
\* equal keys keep the order they had
ListSort(list, reverse) == Sorted(list, SortKeys(list), reverse, FALSE)

\* The filters of apply_filters work on f = [list, alias]: the list bound to
\* `filtered`, and whether it is still the `jobs` object of the caller.  A
\* list comprehension builds a new list; a filter that is not supplied leaves
\* `filtered` the object it was.
NewList(list) == [list |-> list, alias |-> FALSE]

\* line 227: filtered = jobs
SameList(joblist) == [list |-> joblist, alias |-> TRUE]

\* lines 229-230
FilterSource(f, c) ==
    IF c.source # <<>>
    THEN NewList(SelectSeq(f.list, LAMBDA j : MatchesSource(j, c.source)))
    ELSE f

\* lines 232-234
FilterCategory(f, c) ==
    IF c.category # <<>>
    THEN NewList(SelectSeq(f.list, LAMBDA j : MatchesCategory(j, c.category)))
    ELSE f

\* lines 236-237
FilterArrangement(f, c) ==
    IF c.arrangement # <<>>
    THEN NewList(SelectSeq(f.list, LAMBDA j : MatchesArrangement(j, c.arrangement)))
    ELSE f

\* lines 239-240
FilterJobType(f, c) ==
    IF c.job_type # <<>>
    THEN NewList(SelectSeq(f.list, LAMBDA j : MatchesJobType(j, c.job_type)))
    ELSE f

\* lines 242-245
FilterSalary(f, c) ==
    IF c.salary # <<>> /\ IsSalaryRange(c.salary)
    THEN NewList(SelectSeq(f.list, LAMBDA j : MatchesSalary(j, c.salary)))
    ELSE f

\* lines 247-252
FilterSearch(f, c) ==
    IF c.search # <<>>
    THEN NewList(SelectSeq(f.list, LAMBDA j : MatchesSearch(j, c.search)))
    ELSE f

\* the filters with the search applied to `jobs` and not to `filtered`: the
\* filters before it are lost
FiltersSearchOverJobs(joblist, c) ==
    IF c.search # <<>>
    THEN FilterSearch(SameList(joblist), c)
    ELSE FilterSalary(FilterJobType(FilterArrangement(FilterCategory(
             FilterSource(SameList(joblist), c), c), c), c), c)

\* the filters of lines 227-252, in the order of the code, before the sort
Filters(joblist, c) ==
    FilterSearch(FilterSalary(FilterJobType(FilterArrangement(FilterCategory(
        FilterSource(SameList(joblist), c), c), c), c), c), c)

\* lines 254-260: filtered.sort() sorts in place, so it sorts the caller's
\* list too when no filter built a new one (f.alias)
SortInPlace(joblist, alias, sorted) ==
    [filtered |-> sorted, jobs |-> IF alias THEN sorted ELSE joblist]

SortFiltered(joblist, f, reverse) ==
    SortInPlace(joblist, f.alias, ListSort(f.list, reverse))

\* apply_filters(jobs, ...) with joblist for jobs: the list returned, and the
\* caller's list after the call
apply_filters(joblist, c) ==
    SortFiltered(joblist, Filters(joblist, c), c.sort # <<"o","l","d","e","s","t">>)

----------------------------------------------------------------------------
(* Paginator: lines 279-285 of index() *)

JOBS_PER_PAGE == 20

Max(a, b) == IF a >= b THEN a ELSE b
Min(a, b) == IF a <= b THEN a ELSE b

\* the page count by integer division, rounded down
CeilRoundedDown(a, b) == a \div b

\* math.ceil(a / b) for a >= 0, b > 0
Ceil(a, b) == (a + b - 1) \div b

\* list[start:stop] for 0 <= start <= stop
Slice(list, start, stop) == SubSeq(list, start + 1, Min(stop, Len(list)))

Paginate(filtered_jobs, requested) ==
    LET total_filtered == Len(filtered_jobs)
        pages == Max(1, Ceil(total_filtered, JOBS_PER_PAGE))
        current == Max(1, Min(requested, pages))
        start == (current - 1) * JOBS_PER_PAGE
    IN  [total_pages |-> pages, current_page |-> current,
         jobs |-> Slice(filtered_jobs, start, start + JOBS_PER_PAGE)]

----------------------------------------------------------------------------
(* The state machine *)

MaxPieces == 3
MaxSalaryPieces == 3
MaxJobs == 3
MaxCriteria == 2
MaxCount == 45
MaxPage == 4

RECURSIVE Concat(_)
Concat(ps) == IF ps = <<>> THEN <<>> ELSE ps[1] \o Concat(Tail(ps))

\* the concatenations of at most n pieces
Texts(pieces, n) == {Concat(ps) : ps \in UNION {[1..k -> pieces] : k \in 0..n}}

\* the arguments of clean_text
Pieces == { <<"a">>, <<" ">>, <<"\n">>, <<">">>, <<"<","b","r",">">>, <<"<","B","R"," ","/",">">>, <<"<","\\","b","r","\\","\\",">">>,
            <<"<","b",">">>, <<"&","a","m","p",";">>, <<"&","l","t",";">>, <<"l","t",";">> }
CleanInputs == Texts(Pieces, MaxPieces) \cup {None}

\* the salary texts
SalaryPieces == { <<"$","3","0","0","0">>, <<"$","2","0">>, <<"$","6","0",",","0","0","0">>, <<"$","5","0">>, <<"$","7","0">>, <<" ","1","0","0","0","0">>,
                  <<" ","4","9">>, <<"$","1","2",".","5">>, <<"-">>, <<"/","h","r">>, <<"/","y","e","a","r">>, <<"/","m","o","n","t","h">>,
                  <<"/","w","e","e","k">>, <<"T","B","D">> }
SalaryInputs == Texts(SalaryPieces, MaxSalaryPieces)

\* the records a scraped file is made of
RawPool ==
    { [source |-> <<"w","w","r">>, title |-> <<"R","e","m","o","t","e"," ","<","b",">","D","e","v","<","/","b",">">>,
       category |-> <<"P","r","o","g","r","a","m","m","i","n","g">>, type |-> <<"F","u","l","l","-","t","i","m","e">>,
       salary |-> <<"$","5","0","0","/","m","o","n","t","h">>,
       posted_date |-> <<"iso8601", <<2026, 2, 3, 14, 0, 6>> >>],
      [source |-> <<"o","j","p","h">>, title |-> <<"W","r","i","t","e","r">>, location |-> <<"M","a","n","i","l","a",","," ","O","n","s","i","t","e">>,
       type |-> <<"P","a","r","t","-","t","i","m","e">>, description |-> <<"d","e","v"," ","d","o","c","s">>, salary |-> <<"$","5","0","0","0">>,
       date_posted |-> <<"short", <<2026, 2, 4, 0, 0, 0>> >>],
      [source |-> <<"w","w","r">>, title |-> None, category |-> <<"D","e","s","i","g","n">>,
       type |-> <<"P","r","o","g","r","a","m","m","i","n","g">>, job_description |-> <<"D","e","s","i","g","n","e","r">>,
       posted_date |-> <<"other", <<>> >>] }

\* scraped_jobs.json: a list of at most MaxJobs records, or no readable file
Files ==
    {[status |-> "ok", jobs |-> js] : js \in UNION {[1..n -> RawPool] : n \in 0..MaxJobs}}
    \cup {[status |-> "missing", jobs |-> <<>>], [status |-> "corrupt", jobs |-> <<>>]}

\* a file of n records, for the pagination of long lists
LongFile(n) == [status |-> "ok", jobs |-> [i \in 1..n |-> [title |-> <<"D","e","v">>]]]

\* the values of the arguments of a query
FilterFields == {"source", "category", "search", "arrangement", "job_type", "salary"}
ArgValues ==
    [source |-> {<<>>, <<"w","w","r">>},
     category |-> {<<>>, <<"P","r","o","g","r","a","m","m","i","n","g">>},
     search |-> {<<>>, <<"D","E","V">>},
     arrangement |-> {<<>>, <<"r","e","m","o","t","e">>},
     job_type |-> {<<>>, <<"f","u","l","l","-","t","i","m","e">>},
     sort |-> {<<>>, <<"o","l","d","e","s","t">>, <<"n","e","w","e","s","t">>},
     salary |-> {<<>>, <<"u","n","d","e","r","5","0","0">>, <<"5","0","0","t","o","1","0","0","0">>, <<"1","0","0","0","t","o","2","0","0","0">>, <<"2","0","0","0","t","o","5","0","0","0">>,
                 <<"5","0","0","0","p","l","u","s">>, <<"b","o","g","u","s">>}]

Supplied(c) == {k \in FilterFields : c[k] # <<>>}

\* the queries: at most MaxCriteria filter arguments, and any sort
Criteria ==
    {c \in [source : ArgValues.source, category : ArgValues.category,
            search : ArgValues.search, arrangement : ArgValues.arrangement,
            job_type : ArgValues.job_type, sort : ArgValues.sort,
            salary : ArgValues.salary] : Cardinality(Supplied(c)) <= MaxCriteria}

Pages == (-1)..MaxPage
QueryPages == {1, 2}

NoResponse == [status |-> 0, job_id |-> 0, body |-> <<>>]

CleanIdle == value = <<>> /\ once = NotYet /\ twice = NotYet
SalaryIdle == salary = <<>> /\ monthly = NotYet
QueryIdle ==
    /\ pc = "idle"
    /\ jobs = <<>>
    /\ loaded = <<>>
    /\ criteria = NoCriteria
    /\ filtered = <<>>
    /\ page = 1
    /\ total_pages = 1
    /\ current_page = 1
    /\ paginated_jobs = <<>>
    /\ response = NoResponse

----------------------------------------------------------------------------
(* clean_text, applied once and again *)

InitClean ==
    /\ value \in CleanInputs
    /\ once = NotYet
    /\ twice = NotYet
    /\ SalaryIdle
    /\ file = LongFile(0)
    /\ QueryIdle

\* normalize_job_text cleans a field of a loaded record
CleanOnce ==
    /\ once = NotYet
    /\ once' = clean_text(value)
    /\ UNCHANGED <<value, twice, salaryVars, file, pc, queryVars, response>>

\* the cleaned text is cleaned again
CleanTwice ==
    /\ once # NotYet
    /\ twice = NotYet
    /\ twice' = clean_text(once)
    /\ UNCHANGED <<value, once, salaryVars, file, pc, queryVars, response>>

NextClean == CleanOnce \/ CleanTwice

SpecClean == InitClean /\ [][NextClean]_vars

----------------------------------------------------------------------------
(* parse_salary_monthly, applied to a job with a salary text *)

InitSalary ==
    /\ salary \in SalaryInputs
    /\ monthly = NotYet
    /\ CleanIdle
    /\ file = LongFile(0)
    /\ QueryIdle

ParseSalary ==
    /\ monthly = NotYet
    /\ monthly' = parse_salary_monthly([salary |-> salary])
    /\ UNCHANGED <<salary, cleanVars, file, pc, queryVars, response>>

NextSalary == ParseSalary

SpecSalary == InitSalary /\ [][NextSalary]_vars

----------------------------------------------------------------------------
(* The request handlers index() and job_detail() *)

\* index(), line 266: jobs = load_jobs()
IndexLoad ==
    /\ pc = "idle"
    /\ jobs' = load_jobs(file)
    /\ loaded' = jobs'
    /\ pc' = "index_loaded"
    /\ response' = NoResponse
    /\ UNCHANGED <<cleanVars, salaryVars, file, criteria, filtered, page,
                   total_pages, current_page, paginated_jobs>>

\* what the call of apply_filters leaves in filtered_jobs and in jobs
Filtered(r) == filtered' = r.filtered /\ jobs' = r.jobs

\* what the pagination leaves in the locals of index()
Paginated(r) ==
    /\ total_pages' = r.total_pages
    /\ current_page' = r.current_page
    /\ paginated_jobs' = r.jobs

\* what job_detail answers for job_id
Looked(joblist, job_id) ==
    response' = IF 0 <= job_id /\ job_id < Len(joblist)
                THEN [status |-> 200, job_id |-> job_id,
                      body |-> <<joblist[job_id + 1]>>]
                ELSE [status |-> 404, job_id |-> job_id, body |-> <<>>]

\* index(), lines 268-277: the arguments are read and apply_filters is called
IndexFilter(queries) ==
    /\ pc = "index_loaded"
    /\ \E c \in queries :
          /\ criteria' = c
          /\ Filtered(apply_filters(jobs, c))
    /\ pc' = "index_filtered"
    /\ UNCHANGED <<cleanVars, salaryVars, file, loaded, page, total_pages,
                   current_page, paginated_jobs, response>>

\* index(), lines 279-285: the pagination
IndexPaginate(pages) ==
    /\ pc = "index_filtered"
    /\ \E p \in pages :
          /\ page' = p
          /\ Paginated(Paginate(filtered, p))
    /\ pc' = "index_paginated"
    /\ UNCHANGED <<cleanVars, salaryVars, file, jobs, loaded, criteria, filtered,
                   response>>

\* index(), lines 287-304: the page is rendered and the locals are dropped
IndexRender ==
    /\ pc = "index_paginated"
    /\ pc' = "idle"
    /\ jobs' = <<>>
    /\ loaded' = <<>>
    /\ criteria' = NoCriteria
    /\ filtered' = <<>>
    /\ page' = 1
    /\ total_pages' = 1
    /\ current_page' = 1
    /\ paginated_jobs' = <<>>
    /\ UNCHANGED <<cleanVars, salaryVars, file, response>>

\* job_detail(job_id): the list is loaded and indexed by job_id
JobDetail ==
    /\ pc = "idle"
    /\ \E job_id \in 0..MaxJobs : Looked(load_jobs(file), job_id)
    /\ UNCHANGED <<cleanVars, salaryVars, file, pc, queryVars>>

Init ==
    /\ file \in Files
    /\ CleanIdle
    /\ SalaryIdle
    /\ QueryIdle

Next ==
    \/ IndexLoad
    \/ IndexFilter(Criteria)
    \/ IndexPaginate(QueryPages)
    \/ IndexRender
    \/ JobDetail

Spec == Init /\ [][Next]_vars

----------------------------------------------------------------------------
(* index() over long lists, with no filter argument *)

InitPaginate ==
    /\ file \in {LongFile(n) : n \in 0..MaxCount}
    /\ CleanIdle
    /\ SalaryIdle
    /\ QueryIdle

NextPaginate ==
    \/ IndexLoad
    \/ IndexFilter({NoCriteria})
    \/ IndexPaginate(Pages)
    \/ IndexRender

SpecPaginate == InitPaginate /\ [][NextPaginate]_vars

----------------------------------------------------------------------------
(* The claims *)

\* the 1-based position in list of the job whose id is n
PosOf(list, n) == CHOOSE i \in 1..Len(list) : list[i]["id"] = n

\* the ids of the jobs of a list
Ids(list) == {list[i]["id"] : i \in 1..Len(list)}

\* the query with the one filter argument k of c, and the sort of c
Only(c, k) == [x \in DOMAIN c |-> IF x \in {k, "sort"} THEN c[x] ELSE <<>>]

\* the brackets as the claims state them: name, lo, hi (<<>> for no upper end)
ClaimedBrackets ==
    { << <<"u","n","d","e","r","5","0","0">>, 0, <<500>> >>, << <<"5","0","0","t","o","1","0","0","0">>, 500, <<1000>> >>,
      << <<"1","0","0","0","t","o","2","0","0","0">>, 1000, <<2000>> >>, << <<"2","0","0","0","t","o","5","0","0","0">>, 2000, <<5000>> >>,
      << <<"5","0","0","0","p","l","u","s">>, 5000, <<>> >> }

\* the job has a monthly estimate v with lo <= v < hi for the bracket b
InBracket(j, b) ==
    /\ "_salary_monthly" \in DOMAIN j
    /\ j["_salary_monthly"] # None
    /\ FracLeq(Whole(b[2]), j["_salary_monthly"])
    /\ (b[3] = <<>> \/ FracLess(j["_salary_monthly"], Whole(b[3][1])))

\* the job satisfies the criterion k of the query c, as the claims state it
Satisfies(j, c, k) ==
    CASE k = "source" -> "source" \in DOMAIN j /\ j["source"] = c.source
      [] k = "category" ->
            \/ ("category" \in DOMAIN j /\ j["category"] = c.category)
            \/ ("type" \in DOMAIN j /\ j["type"] = c.category)
      [] k = "arrangement" -> j["_arrangement"] = c.arrangement
      [] k = "job_type" -> j["_job_type"] = c.job_type
      [] k = "salary" ->
            \A b \in ClaimedBrackets : b[1] = c.salary => InBracket(j, b)
      [] k = "search" ->
            \E f \in {"title", "description", "job_description"} :
                f \in DOMAIN j /\ Contains(Lower(j[f]), Lower(c.search))

\* the date a job sorts by: a null _parsed_date counts as the earliest instant
DateOrEarliest(j) ==
    IF j["_parsed_date"] = None THEN <<1, 1, 1, 0, 0, 0>> ELSE j["_parsed_date"]

\* C1: apply_filters is pure: after the call the caller's collection holds
\* the records load_jobs produced, in the same order and with the same fields,
\* whatever the criteria, none supplied included.
C1_ApplyLeavesInputUnchanged ==
    pc \in {"index_filtered", "index_paginated"} => jobs = loaded

\* the result of the query with the one filter argument k of c
Single(c, k) == apply_filters(loaded, Only(c, k)).filtered

AllSatisfy(list, c, k) == \A i \in 1..Len(list) : Satisfies(list[i], c, k)

C2_Holds(S) ==
    /\ \A i \in 1..Len(filtered) : \E k \in 1..Len(loaded) : filtered[i] = loaded[k]
    /\ \A k \in S : AllSatisfy(Single(criteria, k), criteria, k)
    /\ Cardinality(S) = 1 => \A k \in S : AllSatisfy(filtered, criteria, k)
    /\ Cardinality(S) = 2 =>
          Ids(filtered) =
              {n \in Ids(loaded) : \A k \in S : n \in Ids(Single(criteria, k))}

\* C2: the result of a query holds only records of the input; with one
\* criterion every record of the result satisfies it; with two criteria the
\* result holds exactly the records that are in both single-criterion results.
C2_FilterComposition ==
    pc = "index_filtered" => C2_Holds(Supplied(criteria))

C2_Witness ==
    /\ pc = "index_filtered"
    /\ criteria.source # <<>>
    /\ criteria.search # <<>>
    /\ Cardinality(Supplied(criteria)) = 2
    /\ Len(filtered) = 1
    /\ Len(Single(criteria, "source")) = 2
    /\ Len(Single(criteria, "search")) = 2

\* the pairs of ids of two jobs of the loaded list, the first before the
\* second, both in the result, with _parsed_date equal or both null
EqualDatePairs(result) ==
    {p \in Ids(result) \X Ids(result) :
        /\ p[1] < p[2]
        /\ loaded[p[1] + 1]["_parsed_date"] = loaded[p[2] + 1]["_parsed_date"]}

\* C3 as claimed: jobs with equal or null _parsed_date keep their input order
\* under the default sort and come out in the reverse of it under sort=oldest.
C3_StableThenReversed ==
    pc = "index_filtered" =>
        \A p \in EqualDatePairs(filtered) :
            IF criteria.sort = <<"o","l","d","e","s","t">>
            THEN PosOf(filtered, p[1]) > PosOf(filtered, p[2])
            ELSE PosOf(filtered, p[1]) < PosOf(filtered, p[2])

\* C3 as amended: jobs with equal or null _parsed_date keep their input order
\* in the result under the default sort and under sort=oldest alike.
C3_StableBothWays ==
    pc = "index_filtered" =>
        \A p \in EqualDatePairs(filtered) :
            PosOf(filtered, p[1]) < PosOf(filtered, p[2])

\* two copies of a dated job and an undated one, listed oldest first: the
\* undated job leads and the two copies follow in their input order
C3_Witness ==
    /\ pc = "index_filtered"
    /\ criteria.sort = <<"o","l","d","e","s","t">>
    /\ Len(filtered) = 3
    /\ filtered[1]["_parsed_date"] = None
    /\ \E p \in EqualDatePairs(filtered) :
          /\ loaded[p[1] + 1]["_parsed_date"] # None
          /\ PosOf(filtered, p[1]) < PosOf(filtered, p[2])

\* C4: the result is sorted by _parsed_date, null counted as the earliest
\* instant: newest first unless sort=oldest, then oldest first, with or
\* without filters.
C4_ResultSorted ==
    pc = "index_filtered" =>
        \A i \in 1..(Len(filtered) - 1) :
            IF criteria.sort = <<"o","l","d","e","s","t">>
            THEN ~TupleLess(DateOrEarliest(filtered[i + 1]), DateOrEarliest(filtered[i]))
            ELSE ~TupleLess(DateOrEarliest(filtered[i]), DateOrEarliest(filtered[i + 1]))

C4_Witness ==
    /\ pc = "index_filtered"
    /\ criteria.sort = <<"n","e","w","e","s","t">>
    /\ Len(filtered) = 3
    /\ filtered[1]["id"] = 2
    /\ filtered[2]["id"] = 1
    /\ filtered[3]["_parsed_date"] = None

\* C5: total_pages = max(1, ceil(count / pageSize)); the page is the requested
\* one clamped into 1..total_pages; the items are those at the 0-based
\* positions (page-1)*pageSize up to min(page*pageSize, count), excluded; an
\* empty list gives one empty page, a non-empty list never an empty page, and
\* the pages 1..total_pages hold every item once, in order.
C5_Pagination ==
    pc = "index_paginated" =>
        LET count == Len(filtered)
            first == (current_page - 1) * JOBS_PER_PAGE
            last == IF current_page * JOBS_PER_PAGE < count
                    THEN current_page * JOBS_PER_PAGE ELSE count
        IN  /\ total_pages >= 1
            /\ total_pages * JOBS_PER_PAGE >= count
            /\ (total_pages > 1 => (total_pages - 1) * JOBS_PER_PAGE < count)
            /\ current_page = (IF page < 1 THEN 1
                               ELSE IF page > total_pages THEN total_pages ELSE page)
            /\ paginated_jobs = [k \in 1..(last - first) |-> filtered[first + k]]
            /\ (count = 0 => total_pages = 1 /\ paginated_jobs = <<>>)
            /\ (count > 0 => paginated_jobs # <<>>)
            /\ Concat([p \in 1..total_pages |-> Paginate(filtered, p).jobs]) = filtered

C5_Witness ==
    /\ pc = "index_paginated"
    /\ Len(filtered) = 45
    /\ page = 4
    /\ total_pages = 3
    /\ current_page = 3
    /\ Len(paginated_jobs) = 5
    /\ paginated_jobs[1] = filtered[41]

\* C6: at every point of a load pass, through the filter, the sort and the
\* pagination, the ids of the loaded records are pairwise distinct and each
\* record's id is its index in the list, so jobs[i] is the record of id i.
C6_IdIsIndex ==
    pc # "idle" =>
        /\ \A i \in 1..Len(jobs) : jobs[i]["id"] = i - 1
        /\ \A i, k \in 1..Len(jobs) : i # k => jobs[i]["id"] # jobs[k]["id"]

C7_Holds(base) ==
    /\ (\A b \in ClaimedBrackets : b[1] # criteria.salary) => filtered = base
    /\ \A b \in ClaimedBrackets :
          b[1] = criteria.salary =>
              filtered = SelectSeq(base, LAMBDA j : InBracket(j, b))

\* C7: a salary bracket keeps exactly the jobs with a non-null estimate v,
\* lo <= v < hi, so a null estimate matches no bracket and 500 or 5000 are in
\* the upper bracket only; a key that names no bracket is ignored.
C7_SalaryBracket ==
    pc = "index_filtered" =>
        C7_Holds(apply_filters(loaded, [criteria EXCEPT !.salary = <<>>]).filtered)

C7_Witness ==
    /\ pc = "index_filtered"
    /\ criteria.salary = <<"5","0","0","t","o","1","0","0","0">>
    /\ Len(jobs) = 3
    /\ Len(filtered) = 1
    /\ filtered[1]["_salary_monthly"] = Whole(500)
    /\ \E i \in 1..Len(jobs) : jobs[i]["_salary_monthly"] = None
    /\ \E i \in 1..Len(jobs) : jobs[i]["_salary_monthly"] = Whole(5000)

\* C8: clean_text is idempotent: cleaning a cleaned text changes nothing.
C8_CleanIdempotent == twice # NotYet => twice = once

\* C9: a line-break tag between two runs of text becomes a newline, so the
\* runs come out on two lines and not on one line joined by a space.
C9_BreakBecomesNewline ==
    \A tag \in { <<"<","b","r",">">>, <<"<","B","R"," ","/",">">> } :
        (once # NotYet /\ value = <<"a">> \o tag \o <<"a">>) => once = <<"a","\n","a">>

\* C10: for a salary text that passes the skip list and has a numeric token,
\* the result is the mean of the tokens, converted by the first period named
\* among hourly (x160), yearly (/12), weekly (x4), monthly (as is), and with
\* no period named by the magnitude: /12 above 10000, x160 below 50, else as
\* is; so $3000/month is 3000, $20/hr 3200, $60,000/year 5000, $50-$70 60.
C10_MonthlyEstimate ==
    monthly # NotYet =>
        LET raw == Strip(salary)
            low == Lower(raw)
            nums == SalaryNums(raw)
            mean == FracDiv(FracSum(nums), Len(nums))
            skipped == low \in SkipExact \/ AnyIn(SkipSubstr, low)
        IN  /\ (raw # <<>> /\ ~skipped /\ nums # <<>>) =>
                  monthly =
                      IF AnyIn(HourMarkers, low) THEN FracMul(mean, 160)
                      ELSE IF AnyIn(YearMarkers, low) THEN FracDiv(mean, 12)
                      ELSE IF AnyIn(WeekMarkers, low) THEN FracMul(mean, 4)
                      ELSE IF AnyIn(MonthMarkers, low) THEN mean
                      ELSE IF FracLess(Whole(10000), mean) THEN FracDiv(mean, 12)
                      ELSE IF FracLess(mean, Whole(50)) THEN FracMul(mean, 160)
                      ELSE mean
            /\ (salary = <<"$","3","0","0","0","/","m","o","n","t","h">> => monthly = Whole(3000))
            /\ (salary = <<"$","2","0","/","h","r">> => monthly = Whole(3200))
            /\ (salary = <<"$","6","0",",","0","0","0","/","y","e","a","r">> => monthly = Whole(5000))
            /\ (salary = <<"$","5","0","-","$","7","0">> => monthly = Whole(60))
            /\ (salary = <<"$","5","0">> => monthly = Whole(50))
            /\ (salary = <<" ","1","0","0","0","0">> => monthly = Whole(10000))

C10_Witness ==
    /\ salary = <<"$","2","0","/","y","e","a","r","/","h","r">>
    /\ monthly = Whole(3200)

====
